---- MODULE Spec2Model ----
(***************************************************************************)
(* Model of src/src/ell/provider.py: the Provider adapter contract, the    *)
(* memoised signature introspection (_call_params) and the two validators  *)
(* (_validate_provider_call_params, _validate_messages_are_tracked).       *)
(*                                                                         *)
(* Three specifications share the variables:                               *)
(*   Spec          one execution of Provider.call, statement by statement  *)
(*   SpecValidate  _validate_provider_call_params applied to drawn inputs  *)
(*   SpecInspect   sequences of _call_params / available_api_params /      *)
(*                 validation calls sharing the lru_cache                  *)
(* Python exceptions are values [exc, kind, name]; asserts are enabled     *)
(* (__debug__ is true, the interpreter's default).                         *)
(***************************************************************************)
EXTENDS Integers, Sequences, FiniteSets, TLC

VARIABLES
    pc,                     \* position inside Provider.call ("idle" outside it)
    api_params,             \* keys of ell_call.api_params
    origin_id,              \* origin_id argument of call ("None" when absent)
    disallowed_impl,        \* container type disallowed_api_params() returns
    final_api_call_params,  \* dict built by translate_to_provider (ordered)
    call,                   \* callable returned by provider_call_function
    validation,             \* outcome of _validate_provider_call_params
    fn_calls,               \* invocations performed by line 91, in order
    provider_resp,          \* value bound to provider_resp at line 91
    messages,               \* messages returned by translate_from_provider
    raised,                 \* exception that left the operation, if any
    returned,               \* the tuple returned by Provider.call
    trace,                  \* steps of Provider.call executed so far
    cache,                  \* lru_cache of _call_params: callable -> parameters
    walks,                  \* number of inspect.signature walks per callable
    inspected,              \* last value _call_params returned per callable
    available               \* outcome of the last available_api_params call

vars == << pc, api_params, origin_id, disallowed_impl, final_api_call_params,
           call, validation, fn_calls, provider_resp, messages, raised,
           returned, trace, cache, walks, inspected, available >>

-----------------------------------------------------------------------------
(* Bounds of the model *)

\* largest number of entries in a translated parameter dict
MaxParams == 3

\* largest number of messages translate_from_provider returns
MaxMessages == 2

\* cap on the signature walks counted per callable
MaxWalks == 2

\* largest parameter dict used when validation is run to exercise the cache
MaxProbeParams == 0

-----------------------------------------------------------------------------
(* Exceptions *)

NoError == [exc |-> "none", kind |-> "none", name |-> "none"]

Err(exc, kind, name) == [exc |-> exc, kind |-> kind, name |-> name]

-----------------------------------------------------------------------------
(* Values and their runtime types *)

\* parameter names used as keys of the translated dict
Names == {"a", "b", "c", "n"}

\* Python values 1, 'x' and True
Values == {"1", "'x'", "True"}

TypeOf(value) ==
    CASE value = "1" -> "int"
      [] value = "'x'" -> "str"
      [] value = "True" -> "bool"

\* the method resolution order of a runtime type (bool is a subclass of int)
Mro(type) ==
    CASE type = "bool" -> {"bool", "int", "object"}
      [] type = "int" -> {"int", "object"}
      [] type = "str" -> {"str", "object"}

\* annotations that are classes; any other annotation (List[int]) makes
\* isinstance raise TypeError
Classes == {"int", "str", "bool", "float", "object"}

isinstance(param_value, param_type) == param_type \in Mro(TypeOf(param_value))

-----------------------------------------------------------------------------
(* Callables and their signatures (inspect.Parameter: name, kind, default, *)
(* annotation)                                                             *)

Param(name, kind, default, annotation) ==
    [name |-> name, kind |-> kind, default |-> default, annotation |-> annotation]

Callables == {"f_ab", "f_ab_kw", "f_a_n", "f_opt_kw", "f_generic", "f_var", "f_chat"}

Signature(f) ==
    CASE f = "f_ab" ->       \* def f(a, b)
           << Param("a", "POSITIONAL_OR_KEYWORD", "empty", "empty"),
              Param("b", "POSITIONAL_OR_KEYWORD", "empty", "empty") >>
      [] f = "f_ab_kw" ->    \* def f(a, b, **kwargs)
           << Param("a", "POSITIONAL_OR_KEYWORD", "empty", "empty"),
              Param("b", "POSITIONAL_OR_KEYWORD", "empty", "empty"),
              Param("kwargs", "VAR_KEYWORD", "empty", "empty") >>
      [] f = "f_a_n" ->      \* def f(a, n: int = 0)
           << Param("a", "POSITIONAL_OR_KEYWORD", "empty", "empty"),
              Param("n", "POSITIONAL_OR_KEYWORD", "value", "int") >>
      [] f = "f_opt_kw" ->   \* def f(a: str = '', *, n: int = 0, **kwargs)
           << Param("a", "POSITIONAL_OR_KEYWORD", "value", "str"),
              Param("n", "KEYWORD_ONLY", "value", "int"),
              Param("kwargs", "VAR_KEYWORD", "empty", "empty") >>
      [] f = "f_generic" ->  \* def f(a, n: List[int] = None)
           << Param("a", "POSITIONAL_OR_KEYWORD", "empty", "empty"),
              Param("n", "POSITIONAL_OR_KEYWORD", "value", "List[int]") >>
      [] f = "f_var" ->      \* def f(a, *args, **kwargs)
           << Param("a", "POSITIONAL_OR_KEYWORD", "empty", "empty"),
              Param("args", "VAR_POSITIONAL", "empty", "empty"),
              Param("kwargs", "VAR_KEYWORD", "empty", "empty") >>
      [] f = "f_chat" ->     \* def f(model, messages, tools=None, temperature: float = 1.0)
           << Param("model", "POSITIONAL_OR_KEYWORD", "empty", "empty"),
              Param("messages", "POSITIONAL_OR_KEYWORD", "empty", "empty"),
              Param("tools", "POSITIONAL_OR_KEYWORD", "value", "empty"),
              Param("temperature", "POSITIONAL_OR_KEYWORD", "value", "float") >>

\* inspect.signature(call).parameters: the signature walk of a stable callable
inspect_signature(f) == Signature(f)

-----------------------------------------------------------------------------
(* Parameter dicts: insertion-ordered sequences of (key, value) items      *)

Items == [k : Names, v : Values]

DistinctKeys(p) == \A i, j \in DOMAIN p : i # j => p[i].k # p[j].k

ParamsUpTo(n) == {p \in UNION {[1..m -> Items] : m \in 0..n} : DistinctKeys(p)}

NativeParams == ParamsUpTo(MaxParams)

ProbeParams == ParamsUpTo(MaxProbeParams)

Keys(p) == {p[i].k : i \in DOMAIN p}

ParamNames(provider_call_params) ==
    {provider_call_params[i].name : i \in DOMAIN provider_call_params}

Lookup(provider_call_params, name) ==
    provider_call_params[CHOOSE i \in DOMAIN provider_call_params :
                                provider_call_params[i].name = name]

-----------------------------------------------------------------------------
(* _call_params: lru_cache(maxsize=None) around inspect.signature          *)

\* a memoisation that never stores its result
lru_cache_store_nothing(c, f) == c

\* the cache after _call_params(f): a miss stores the walked signature
lru_cache_store(c, f) ==
    IF f \in DOMAIN c THEN c
    ELSE [g \in DOMAIN c \cup {f} |-> IF g = f THEN inspect_signature(f) ELSE c[g]]

\* the value _call_params(f) returns: the cached entry on a hit
_call_params(c, f) == IF f \in DOMAIN c THEN c[f] ELSE inspect_signature(f)

\* the walk count after _call_params(f): only a miss walks the signature
walks_after(w, c, f) == IF f \in DOMAIN c THEN w ELSE [w EXCEPT ![f] = @ + 1]

\* a call of _call_params(f) would walk past the cap
WalkAllowed(f) == f \in DOMAIN cache \/ walks[f] < MaxWalks

-----------------------------------------------------------------------------
(* _validate_provider_call_params                                          *)

\* every parameter counted as required, defaults or not
required_params_ignoring_defaults(provider_call_params) ==
    SelectSeq(provider_call_params, LAMBDA param : param.kind # "VAR_KEYWORD")

\* lines 111-114
required_params(provider_call_params) ==
    SelectSeq(provider_call_params,
              LAMBDA param : param.default = "empty" /\ param.kind # "VAR_KEYWORD")

\* lines 116-117: the first required parameter missing from the dict
RECURSIVE check_required(_, _)
check_required(required, api_call_params) ==
    IF required = << >> THEN NoError
    ELSE IF Head(required).name \notin Keys(api_call_params)
         THEN Err("AssertionError", "MissingRequiredParam", Head(required).name)
         ELSE check_required(Tail(required), api_call_params)

\* the loop body without its isinstance assertion
check_item_untyped(param_name, param_value, provider_call_params) ==
    IF param_name \notin ParamNames(provider_call_params)
    THEN Err("AssertionError", "UnexpectedParam", param_name)
    ELSE NoError

\* lines 120-124: the body of the loop over api_call_params.items()
check_item(param_name, param_value, provider_call_params) ==
    IF param_name \notin ParamNames(provider_call_params)
    THEN Err("AssertionError", "UnexpectedParam", param_name)
    ELSE LET param_type == Lookup(provider_call_params, param_name).annotation
         IN  IF param_type = "empty" THEN NoError
             ELSE IF param_type \notin Classes
                  THEN Err("TypeError", "isinstance", param_name)
                  ELSE IF ~ isinstance(param_value, param_type)
                       THEN Err("AssertionError", "TypeMismatch", param_name)
                       ELSE NoError

\* line 119: the loop stops at the first item that raises
RECURSIVE check_items(_, _)
check_items(items, provider_call_params) ==
    IF items = << >> THEN NoError
    ELSE LET r == check_item(Head(items).k, Head(items).v, provider_call_params)
         IN  IF r # NoError THEN r
             ELSE check_items(Tail(items), provider_call_params)

\* lines 108-124, given the parameters _call_params returned
_validate_provider_call_params(api_call_params, provider_call_params) ==
    LET missing == check_required(required_params(provider_call_params),
                                  api_call_params)
    IN  IF missing # NoError THEN missing
        ELSE check_items(api_call_params, provider_call_params)

-----------------------------------------------------------------------------
(* SpecValidate: _validate_provider_call_params on drawn inputs            *)

Untouched ==
    /\ api_params = {}
    /\ origin_id = "None"
    /\ disallowed_impl = "frozenset"
    /\ fn_calls = << >>
    /\ provider_resp = "unset"
    /\ messages = << >>
    /\ raised = NoError
    /\ returned = [present |-> FALSE, messages |-> << >>, params |-> << >>]
    /\ trace = << >>
    /\ cache = [f \in {} |-> << >>]
    /\ walks = [f \in Callables |-> 0]
    /\ inspected = [f \in Callables |-> << >>]
    /\ available = [call |-> "none", raised |-> NoError, value |-> {}]

InitValidate ==
    /\ pc = "validate"
    /\ final_api_call_params \in NativeParams
    /\ call \in Callables
    /\ validation = NoError
    /\ Untouched

ValidateParams ==
    /\ pc = "validate"
    /\ WalkAllowed(call)
    /\ validation' = _validate_provider_call_params(final_api_call_params,
                                                    _call_params(cache, call))
    /\ inspected' = [inspected EXCEPT ![call] = _call_params(cache, call)]
    /\ cache' = lru_cache_store(cache, call)
    /\ walks' = walks_after(walks, cache, call)
    /\ raised' = validation'
    /\ pc' = "validated"
    /\ UNCHANGED << api_params, origin_id, disallowed_impl, final_api_call_params,
                    call, fn_calls, provider_resp, messages, returned, trace,
                    available >>

NextValidate == ValidateParams

SpecValidate == InitValidate /\ [][NextValidate]_vars

-----------------------------------------------------------------------------
(* Provider: the overridable and abstract members                          *)

\* lines 52-56: the names the default disallowed_api_params() returns
disallowed_api_params == {"messages", "tools", "model"}

\* container types an implementation of disallowed_api_params() may return:
\* the default frozenset, or a list (the docstring's "Returns a list")
DisallowedImpls == {"frozenset", "list"}

\* keys a caller may put in ell_call.api_params
ExtraKeys == {"model", "temperature"}

\* origin tags carried by message texts
OriginTags == {"run-42", "run-7"}

\* origin_id arguments of call
OriginIds == {"None", "run-42"}

\* dict_keys.__eq__ against a str is NotImplemented, so == is False
dict_keys_eq_str(keys, element) == FALSE

\* line 82: assert api_params.keys() not in disallowed_api_params().
\* Membership in a frozenset hashes the dict_keys view, which is unhashable;
\* membership in a list compares the view with every element.
disallowed_assertion(keys, impl) ==
    IF impl = "frozenset"
    THEN Err("TypeError", "unhashable", "dict_keys")
    ELSE IF \E element \in disallowed_api_params : dict_keys_eq_str(keys, element)
         THEN Err("AssertionError", "DisallowedParam", "api_params")
         ELSE NoError

\* Message.text: a plain str, or an _lstr carrying an origin
Texts == {[lstr |-> FALSE, origin |-> "none"]}
            \cup {[lstr |-> TRUE, origin |-> o] : o \in OriginTags}

Messages == [role : {"assistant"}, text : Texts]

MessageSeqs == UNION {[1..m -> Messages] : m \in 0..MaxMessages}

\* isinstance(message.text, _lstr)
is_lstr(text) == text.lstr

\* message.text._or
lstr_or(text) == text.origin

-----------------------------------------------------------------------------
(* _validate_messages_are_tracked                                          *)

\* the check without the comparison of the recorded origin
RECURSIVE validate_messages_are_lstr(_, _)
validate_messages_are_lstr(ms, origin) ==
    IF origin = "None" \/ ms = << >> THEN NoError
    ELSE IF ~ is_lstr(Head(ms).text)
         THEN Err("AssertionError", "UntrackedMessage", "isinstance")
         ELSE validate_messages_are_lstr(Tail(ms), origin)

\* lines 127-132
RECURSIVE _validate_messages_are_tracked(_, _)
_validate_messages_are_tracked(ms, origin) ==
    IF origin = "None" \/ ms = << >> THEN NoError
    ELSE IF ~ is_lstr(Head(ms).text)
         THEN Err("AssertionError", "UntrackedMessage", "isinstance")
         ELSE IF lstr_or(Head(ms).text) # origin
              THEN Err("AssertionError", "UntrackedMessage", "_or")
              ELSE _validate_messages_are_tracked(Tail(ms), origin)

-----------------------------------------------------------------------------
(* Line 91: the backend invocation                                         *)

\* what the backend does once invoked: raise, return a value that is not
\* callable, or return a callable that raises or returns when invoked
BackendBehaviours ==
    {"raises", "returns_value", "returns_callable_that_raises",
     "returns_callable_that_returns"}

Invocation(callee, args, outcome) ==
    [callee |-> callee, args |-> args, outcome |-> outcome]

\* Python's argument binding for one positional argument: it goes to the
\* first positional parameter (or *args); every other parameter without a
\* default is then missing
binds_one_positional(signature) ==
    LET positional == {i \in DOMAIN signature :
                          signature[i].kind = "POSITIONAL_OR_KEYWORD"}
        variadic == {i \in DOMAIN signature : signature[i].kind = "VAR_POSITIONAL"}
    IN  /\ positional \cup variadic # {}
        /\ \A i \in DOMAIN signature :
              ( /\ signature[i].kind \in {"POSITIONAL_OR_KEYWORD", "KEYWORD_ONLY"}
                /\ signature[i].default = "empty" ) =>
                    /\ i \in positional
                    /\ \A j \in positional : i <= j

Line91(calls, error, resp) == [fn_calls |-> calls, raised |-> error, provider_resp |-> resp]

\* a line 91 that invokes the backend again after it raised
call_line_91_retrying(signature, behaviour) ==
    IF ~ binds_one_positional(signature)
    THEN Line91(<< Invocation("call", "positional_dict", "bind_error") >>,
                Err("TypeError", "bind", "call"), "unset")
    ELSE CASE behaviour = "raises" ->
                Line91(<< Invocation("call", "positional_dict", "raised"),
                          Invocation("call", "positional_dict", "raised") >>,
                       Err("BackendTransportFailure", "backend", "call"), "unset")
           [] behaviour = "returns_value" ->
                Line91(<< Invocation("call", "positional_dict", "returned") >>,
                       Err("TypeError", "not_callable", "call_result"), "unset")
           [] behaviour = "returns_callable_that_raises" ->
                Line91(<< Invocation("call", "positional_dict", "returned"),
                          Invocation("call_result", "keywords", "raised") >>,
                       Err("BackendTransportFailure", "backend", "call_result"), "unset")
           [] behaviour = "returns_callable_that_returns" ->
                Line91(<< Invocation("call", "positional_dict", "returned"),
                          Invocation("call_result", "keywords", "returned") >>,
                       NoError, "return_of_call_result")

\* line 91: call is invoked with the dict as its one positional argument, and
\* what it returns is invoked with the dict's entries as keyword arguments
call_line_91(signature, behaviour) ==
    IF ~ binds_one_positional(signature)
    THEN Line91(<< Invocation("call", "positional_dict", "bind_error") >>,
                Err("TypeError", "bind", "call"), "unset")
    ELSE CASE behaviour = "raises" ->
                Line91(<< Invocation("call", "positional_dict", "raised") >>,
                       Err("BackendTransportFailure", "backend", "call"), "unset")
           [] behaviour = "returns_value" ->
                Line91(<< Invocation("call", "positional_dict", "returned") >>,
                       Err("TypeError", "not_callable", "call_result"), "unset")
           [] behaviour = "returns_callable_that_raises" ->
                Line91(<< Invocation("call", "positional_dict", "returned"),
                          Invocation("call_result", "keywords", "raised") >>,
                       Err("BackendTransportFailure", "backend", "call_result"), "unset")
           [] behaviour = "returns_callable_that_returns" ->
                Line91(<< Invocation("call", "positional_dict", "returned"),
                          Invocation("call_result", "keywords", "returned") >>,
                       NoError, "return_of_call_result")

-----------------------------------------------------------------------------
(* Spec: Provider.call, lines 80-97                                        *)

\* a call that goes on to line 91 whatever the validation found
after_validate_ignoring(result) == "invoke"

\* lines 89-91: a failed assertion leaves call, otherwise line 91 is next
after_validate(result) == IF result # NoError THEN "raised" ELSE "invoke"

Init ==
    /\ pc = "call"
    /\ api_params \in SUBSET ExtraKeys
    /\ origin_id \in OriginIds
    /\ disallowed_impl \in DisallowedImpls
    /\ final_api_call_params = << >>
    /\ call = "none"
    /\ validation = NoError
    /\ fn_calls = << >>
    /\ provider_resp = "unset"
    /\ messages = << >>
    /\ raised = NoError
    /\ returned = [present |-> FALSE, messages |-> << >>, params |-> << >>]
    /\ trace = << >>
    /\ cache = [f \in {} |-> << >>]
    /\ walks = [f \in Callables |-> 0]
    /\ inspected = [f \in Callables |-> << >>]
    /\ available = [call |-> "none", raised |-> NoError, value |-> {}]

\* line 82
AssertNotDisallowed ==
    /\ pc = "call"
    /\ LET r == disallowed_assertion(api_params, disallowed_impl)
       IN  /\ raised' = r
           /\ pc' = IF r # NoError THEN "raised" ELSE "translate_to_provider"
    /\ UNCHANGED << api_params, origin_id, disallowed_impl, final_api_call_params,
                    call, validation, fn_calls, provider_resp, messages, returned,
                    trace, cache, walks, inspected, available >>

\* line 87: the implementation's translate_to_provider returns some dict
TranslateToProvider ==
    /\ pc = "translate_to_provider"
    /\ \E p \in NativeParams : final_api_call_params' = p
    /\ trace' = Append(trace, "translate_to_provider")
    /\ pc' = "provider_call_function"
    /\ UNCHANGED << api_params, origin_id, disallowed_impl, call, validation,
                    fn_calls, provider_resp, messages, raised, returned, cache,
                    walks, inspected, available >>

\* line 88: the implementation's provider_call_function returns some callable
ProviderCallFunction ==
    /\ pc = "provider_call_function"
    /\ \E f \in Callables : call' = f
    /\ trace' = Append(trace, "provider_call_function")
    /\ pc' = "validate_provider_call_params"
    /\ UNCHANGED << api_params, origin_id, disallowed_impl, final_api_call_params,
                    validation, fn_calls, provider_resp, messages, raised,
                    returned, cache, walks, inspected, available >>

\* line 89
ValidateProviderCallParams ==
    /\ pc = "validate_provider_call_params"
    /\ WalkAllowed(call)
    /\ LET r == _validate_provider_call_params(final_api_call_params,
                                               _call_params(cache, call))
       IN  /\ validation' = r
           /\ pc' = after_validate(r)
           /\ raised' = IF after_validate(r) = "raised" THEN r ELSE raised
    /\ inspected' = [inspected EXCEPT ![call] = _call_params(cache, call)]
    /\ cache' = lru_cache_store(cache, call)
    /\ walks' = walks_after(walks, cache, call)
    /\ trace' = Append(trace, "_validate_provider_call_params")
    /\ UNCHANGED << api_params, origin_id, disallowed_impl, final_api_call_params,
                    call, fn_calls, provider_resp, messages, returned, available >>

\* line 91
InvokeProvider ==
    /\ pc = "invoke"
    /\ \E behaviour \in BackendBehaviours :
          LET r == call_line_91(Signature(call), behaviour)
          IN  /\ fn_calls' = fn_calls \o r.fn_calls
              /\ raised' = r.raised
              /\ provider_resp' = r.provider_resp
              /\ pc' = IF r.raised # NoError THEN "raised"
                       ELSE "translate_from_provider"
    /\ trace' = Append(trace, "call")
    /\ UNCHANGED << api_params, origin_id, disallowed_impl, final_api_call_params,
                    call, validation, messages, returned, cache, walks, inspected,
                    available >>

\* line 93: the implementation's translate_from_provider returns some messages
TranslateFromProvider ==
    /\ pc = "translate_from_provider"
    /\ \E ms \in MessageSeqs : messages' = ms
    /\ trace' = Append(trace, "translate_from_provider")
    /\ pc' = "validate_messages_are_tracked"
    /\ UNCHANGED << api_params, origin_id, disallowed_impl, final_api_call_params,
                    call, validation, fn_calls, provider_resp, raised, returned,
                    cache, walks, inspected, available >>

\* lines 94-97
ValidateMessagesAreTracked ==
    /\ pc = "validate_messages_are_tracked"
    /\ LET r == _validate_messages_are_tracked(messages, origin_id)
       IN  /\ raised' = r
           /\ pc' = IF r # NoError THEN "raised" ELSE "returned"
           /\ returned' = IF r # NoError THEN returned
                          ELSE [present |-> TRUE, messages |-> messages,
                                params |-> final_api_call_params]
    /\ trace' = Append(trace, "_validate_messages_are_tracked")
    /\ UNCHANGED << api_params, origin_id, disallowed_impl, final_api_call_params,
                    call, validation, fn_calls, provider_resp, messages, cache,
                    walks, inspected, available >>

Next ==
    \/ AssertNotDisallowed
    \/ TranslateToProvider
    \/ ProviderCallFunction
    \/ ValidateProviderCallParams
    \/ InvokeProvider
    \/ TranslateFromProvider
    \/ ValidateMessagesAreTracked

Spec == Init /\ [][Next]_vars

-----------------------------------------------------------------------------
(* SpecInspect: _call_params reached directly, through validation and      *)
(* through available_api_params, any number of times in any order          *)

AvailableResult(f, error, value) == [call |-> f, raised |-> error, value |-> value]

\* every introspected name advertised, the disallowed ones included
available_api_params_unfiltered(f, provider_call_params, impl) ==
    AvailableResult(f, NoError, ParamNames(provider_call_params))

\* lines 58-60: frozenset(params.keys()) - self.disallowed_api_params();
\* a frozenset minus a list is a TypeError
available_api_params(f, provider_call_params, impl) ==
    IF impl = "frozenset"
    THEN AvailableResult(f, NoError,
                         ParamNames(provider_call_params) \ disallowed_api_params)
    ELSE AvailableResult(f, Err("TypeError", "unsupported_operand", "-"), {})

InitInspect ==
    /\ pc = "idle"
    /\ api_params = {}
    /\ origin_id = "None"
    /\ disallowed_impl \in DisallowedImpls
    /\ final_api_call_params = << >>
    /\ call = "none"
    /\ validation = NoError
    /\ fn_calls = << >>
    /\ provider_resp = "unset"
    /\ messages = << >>
    /\ raised = NoError
    /\ returned = [present |-> FALSE, messages |-> << >>, params |-> << >>]
    /\ trace = << >>
    /\ cache = [f \in {} |-> << >>]
    /\ walks = [f \in Callables |-> 0]
    /\ inspected = [f \in Callables |-> << >>]
    /\ available = [call |-> "none", raised |-> NoError, value |-> {}]

\* _call_params(f) called directly
InspectDirect ==
    /\ pc = "idle"
    /\ \E f \in Callables :
          /\ WalkAllowed(f)
          /\ inspected' = [inspected EXCEPT ![f] = _call_params(cache, f)]
          /\ cache' = lru_cache_store(cache, f)
          /\ walks' = walks_after(walks, cache, f)
    /\ UNCHANGED << pc, api_params, origin_id, disallowed_impl,
                    final_api_call_params, call, validation, fn_calls,
                    provider_resp, messages, raised, returned, trace, available >>

\* _validate_provider_call_params(p, f)
InspectViaValidate ==
    /\ pc = "idle"
    /\ \E f \in Callables, p \in ProbeParams :
          /\ WalkAllowed(f)
          /\ validation' = _validate_provider_call_params(p, _call_params(cache, f))
          /\ inspected' = [inspected EXCEPT ![f] = _call_params(cache, f)]
          /\ cache' = lru_cache_store(cache, f)
          /\ walks' = walks_after(walks, cache, f)
    /\ UNCHANGED << pc, api_params, origin_id, disallowed_impl,
                    final_api_call_params, call, fn_calls, provider_resp,
                    messages, raised, returned, trace, available >>

\* provider.available_api_params(hint), provider_call_function(hint) being f
AvailableApiParams ==
    /\ pc = "idle"
    /\ \E f \in Callables :
          /\ WalkAllowed(f)
          /\ available' = available_api_params(f, _call_params(cache, f),
                                               disallowed_impl)
          /\ inspected' = [inspected EXCEPT ![f] = _call_params(cache, f)]
          /\ cache' = lru_cache_store(cache, f)
          /\ walks' = walks_after(walks, cache, f)
    /\ UNCHANGED << pc, api_params, origin_id, disallowed_impl,
                    final_api_call_params, call, validation, fn_calls,
                    provider_resp, messages, raised, returned, trace >>

NextInspect ==
    \/ InspectDirect
    \/ InspectViaValidate
    \/ AvailableApiParams

SpecInspect == InitInspect /\ [][NextInspect]_vars

-----------------------------------------------------------------------------
(* Vocabulary of the properties, read off the signatures directly          *)

DeclaredOf(f) == {Signature(f)[i].name : i \in DOMAIN Signature(f)}

RequiredOf(f) ==
    {Signature(f)[i].name :
        i \in {j \in DOMAIN Signature(f) :
                  /\ Signature(f)[j].default = "empty"
                  /\ Signature(f)[j].kind # "VAR_KEYWORD"}}

HasKeywordSink(f) == \E i \in DOMAIN Signature(f) : Signature(f)[i].kind = "VAR_KEYWORD"

AnnotationOf(f, name) ==
    Signature(f)[CHOOSE i \in DOMAIN Signature(f) : Signature(f)[i].name = name].annotation

ValueOf(p, key) == p[CHOOSE i \in DOMAIN p : p[i].k = key].v

\* runtime compatibility of a value with a declared class
Compatible(value, type) ==
    \/ type = "object"
    \/ type = TypeOf(value)
    \/ type = "int" /\ TypeOf(value) = "bool"

MissingOf(f, p) == RequiredOf(f) \ Keys(p)

UndeclaredOf(f, p) == Keys(p) \ DeclaredOf(f)

\* declared keys whose parameter declares a class the value is not an instance of
MismatchedOf(f, p) ==
    {key \in Keys(p) \cap DeclaredOf(f) :
        /\ AnnotationOf(f, key) \in Classes
        /\ ~ Compatible(ValueOf(p, key), AnnotationOf(f, key))}

\* declared keys whose parameter's annotation is not a class
UncheckableOf(f, p) ==
    {key \in Keys(p) \cap DeclaredOf(f) : AnnotationOf(f, key) \notin Classes \cup {"empty"}}

-----------------------------------------------------------------------------
(* Properties of _validate_provider_call_params (SpecValidate)             *)

C3_UnexpectedOnlyWithoutSink ==
    ( /\ pc = "validated"
      /\ MissingOf(call, final_api_call_params) = {}
      /\ MismatchedOf(call, final_api_call_params) = {}
      /\ UncheckableOf(call, final_api_call_params) = {}
      /\ UndeclaredOf(call, final_api_call_params) # {} ) =>
        IF HasKeywordSink(call)
        THEN validation = NoError
        ELSE /\ validation.kind = "UnexpectedParam"
             /\ validation.name \in UndeclaredOf(call, final_api_call_params)

-----------------------------------------------------------------------------
(* Properties of the introspection cache and available_api_params          *)
(* (SpecInspect)                                                           *)

\* C6: with the frozenset disallowed_api_params() returns, available_api_params
\* is the set of introspected parameter names of the call function minus the
\* disallowed names, so it never holds model, messages or tools.
C6_AvailableExcludesDisallowed ==
    (available.call # "none" /\ disallowed_impl = "frozenset") =>
        /\ available.raised = NoError
        /\ available.value = DeclaredOf(available.call) \ {"model", "messages", "tools"}
        /\ available.value \cap {"model", "messages", "tools"} = {}

\* f(model, messages, tools=None, temperature=1.0) advertises temperature only
C6_Witness ==
    /\ available.call = "f_chat"
    /\ available.raised = NoError
    /\ available.value = {"temperature"}

\* C7: however _call_params is reached and however the calls interleave, each
\* call on f returns f's signature, the signature of f is walked at most once,
\* and a walked signature stays cached.
C7_IdempotentIntrospection ==
    \A f \in Callables :
        /\ walks[f] <= 1
        /\ inspected[f] # << >> => inspected[f] = Signature(f)
        /\ inspected[f] # << >> => f \in DOMAIN cache
        /\ f \in DOMAIN cache <=> walks[f] = 1
        /\ f \in DOMAIN cache => cache[f] = Signature(f)

\* f(model, messages, ...) went through validation (only it requires "model")
\* and through available_api_params, among other callables, with a single walk
C7_Witness ==
    /\ validation = Err("AssertionError", "MissingRequiredParam", "model")
    /\ available.call = "f_chat"
    /\ walks["f_chat"] = 1
    /\ Cardinality(DOMAIN cache) >= 3

-----------------------------------------------------------------------------
(* Properties of Provider.call (Spec)                                      *)

Finished == pc \in {"raised", "returned"}

Order ==
    << "translate_to_provider", "provider_call_function",
       "_validate_provider_call_params", "call", "translate_from_provider",
       "_validate_messages_are_tracked" >>

IsPrefix(s, t) == Len(s) <= Len(t) /\ \A i \in DOMAIN s : s[i] = t[i]

InvocationsOf(callee) == {i \in DOMAIN fn_calls : fn_calls[i].callee = callee}

\* C1: a call whose api_params holds a disallowed key fails with the
\* DisallowedParam assertion before translate_to_provider runs and without
\* the backend being invoked.
C1_DisallowedRejected ==
    (pc # "call" /\ api_params \cap {"model", "messages", "tools"} # {}) =>
        /\ raised.exc = "AssertionError"
        /\ raised.kind = "DisallowedParam"
        /\ trace = << >>
        /\ fn_calls = << >>

\* C5: once line 91 has produced a response, the call fails with
\* UntrackedMessage exactly when an origin_id was given and some returned
\* message's text is not an _lstr whose origin is that origin_id; otherwise it
\* returns exactly the messages translate_from_provider produced.
C5_ProvenanceStamping ==
    (Finished /\ provider_resp # "unset") =>
        LET untracked ==
                /\ origin_id # "None"
                /\ \E i \in DOMAIN messages :
                      ~ ( /\ messages[i].text.lstr
                          /\ messages[i].text.origin = origin_id )
        IN  /\ untracked <=>
                  (raised.exc = "AssertionError" /\ raised.kind = "UntrackedMessage")
            /\ untracked => pc = "raised" /\ ~ returned.present
            /\ ~ untracked =>
                  /\ pc = "returned"
                  /\ raised = NoError
                  /\ returned.present
                  /\ returned.messages = messages

\* origin run-42, a message tagged run-7 after a correctly tagged one
C5_Witness ==
    /\ pc = "raised"
    /\ origin_id = "run-42"
    /\ Len(messages) = 2
    /\ messages[1].text = [lstr |-> TRUE, origin |-> "run-42"]
    /\ messages[2].text = [lstr |-> TRUE, origin |-> "run-7"]
    /\ raised = Err("AssertionError", "UntrackedMessage", "_or")

\* C8: when the backend raises at line 91 the exception leaves call as it is:
\* the call function was invoked once, nothing is retried, the exception is not
\* turned into an assertion failure, and neither translate_from_provider nor
\* the provenance check runs.
C8_BackendFailurePropagates ==
    \A i \in DOMAIN fn_calls :
        fn_calls[i].outcome = "raised" =>
            /\ i = Len(fn_calls)
            /\ Cardinality(InvocationsOf("call")) = 1
            /\ pc = "raised"
            /\ raised = Err("BackendTransportFailure", "backend", fn_calls[i].callee)
            /\ trace = SubSeq(Order, 1, 4)
            /\ messages = << >>
            /\ ~ returned.present

\* the call function itself raised
C8_Witness ==
    /\ pc = "raised"
    /\ fn_calls = << Invocation("call", "positional_dict", "raised") >>
    /\ raised.exc = "BackendTransportFailure"

\* C9: the steps of call run in the fixed order, and a contract violation
\* stops the call where it is detected: after a failed parameter validation
\* the backend is not invoked and nothing is translated back, and after a
\* failed provenance check nothing is returned.
C9_StepOrder ==
    /\ IsPrefix(trace, Order)
    /\ validation # NoError =>
          /\ pc = "raised"
          /\ raised = validation
          /\ trace = SubSeq(Order, 1, 3)
          /\ fn_calls = << >>
          /\ messages = << >>
          /\ ~ returned.present
    /\ raised.kind = "UntrackedMessage" =>
          /\ pc = "raised"
          /\ trace = Order
          /\ ~ returned.present
    /\ returned.present => pc = "returned" /\ trace = Order
    /\ fn_calls # << >> => validation = NoError /\ Len(trace) >= 4

\* validation stopped the call before line 91
C9_Witness ==
    /\ pc = "raised"
    /\ validation.kind = "UnexpectedParam"
    /\ raised = validation
    /\ fn_calls = << >>
    /\ trace = SubSeq(Order, 1, 3)

\* C10: in a successful call the validated call function is invoked exactly
\* once, with the entries of the translated dict as its arguments, what it
\* returns is the response handed to translate_from_provider, and the dict
\* returned to the caller is the translated dict.
C10_SingleDirectInvocation ==
    pc = "returned" =>
        /\ inspected[call] = Signature(call)
        /\ fn_calls = << Invocation("call", "keywords", "returned") >>
        /\ provider_resp = "return_of_call"
        /\ returned.params = final_api_call_params

====
